---- MODULE Spec2Model ----
(***************************************************************************)
(* Model of the license core of Paksa AI Assistant:                        *)
(*   app/core/license.py   LicenseManager, the module-level wrappers       *)
(*   app/core/hardware.py  the hardware probes and get_hardware_id         *)
(*                                                                         *)
(* Python values are records [t, v, n]: t is the Python type, v the text   *)
(* of a string, n the number of an int / the day count of a datetime.      *)
(* Dictionaries are functions from key strings to values.  The outcome of  *)
(* a call is a record [exc, msg, val]: exc = "" for a normal return of     *)
(* val, otherwise the class of the exception raised and its str().         *)
(***************************************************************************)
EXTENDS Integers, Sequences, FiniteSets, TLC

\* ---------------------------------------------------------------- bounds
MaxNow == 2          \* the clock runs over days 0..MaxNow
MaxUuid == 2         \* at most MaxUuid calls of uuid.uuid4()
NumThreads == 2      \* concurrent callers of the license core

Threads == 1..NumThreads

\* ------------------------------------------------------- Python values
None == [t |-> "NoneType", v |-> "None", n |-> 0]
Str(s) == [t |-> "str", v |-> s, n |-> 0]
IntVal(i) == [t |-> "int", v |-> "", n |-> i]
Bool(b) == [t |-> "bool", v |-> IF b THEN "True" ELSE "False", n |-> IF b THEN 1 ELSE 0]
True == Bool(TRUE)
False == Bool(FALSE)
\* a datetime, counted in days
Datetime(d) == [t |-> "datetime", v |-> "", n |-> d]
\* a reference to a nested dictionary, named by v
DictRef(name) == [t |-> "dict", v |-> name, n |-> 0]

\* bool(x) of Python for the values above
Truthy(x) ==
    CASE x.t = "NoneType" -> FALSE
      [] x.t = "str" -> x.v # ""
      [] x.t = "int" -> x.n # 0
      [] x.t = "bool" -> x.n # 0
      [] OTHER -> TRUE

\* datetime.isoformat(): the text of a datetime; the text keeps the day
isoformat(dt) == [t |-> "str", v |-> "<isoformat>", n |-> dt.n]

\* the characters of a str
StrText(s) == IF s.v = "<isoformat>" THEN "day" \o ToString(s.n) ELSE s.v

\* outcomes of a call
Ret(val) == [exc |-> "", msg |-> "", val |-> val]
Raise(cls, msg) == [exc |-> cls, msg |-> msg, val |-> None]

\* datetime.fromisoformat(s): parses only the text isoformat() writes
fromisoformat(s) ==
    IF s.t = "str" /\ s.v = "<isoformat>"
    THEN Ret(Datetime(s.n))
    ELSE Raise("ValueError", "Invalid isoformat string")

\* dict.get(key, default) and dict[key]
Get(d, key, default) == IF key \in DOMAIN d THEN d[key] ELSE default
GetItem(d, key) == IF key \in DOMAIN d THEN Ret(d[key]) ELSE Raise("KeyError", key)

\* timedelta(days=365) of the stub validation
StubValidityDays == 365

\* ------------------------------------------------------ hardware.py
\* hashlib.sha256(text.encode()).hexdigest(), taken as collision-free: the
\* digest is a text that names its preimage
Sha256Hex(text) == Str("sha256(" \o text \o ")")

\* the names bound in the namespace of hardware.py: its imports (lines 7-16)
\* and its own functions
HardwareGlobals ==
    {"platform", "hashlib", "uuid", "subprocess", "re", "os", "sys", "socket",
     "psutil", "Dict", "Any", "Optional",
     "get_mac_address", "get_cpu_id", "get_disk_serial", "get_system_info",
     "get_hardware_id", "validate_hardware_id"}

\* looking a global name up in hardware.py
HardwareName(name) ==
    IF name \in HardwareGlobals
    THEN Ret(None)
    ELSE Raise("NameError", "name '" \o name \o "' is not defined")

\* what the three platform commands of one call did
ProbeOutcomes ==
    [mac : {"ok", "nomatch", "fail"},
     cpu : {"ok", "unparseable", "fail"},
     disk : {"ok", "empty", "fail"}]

Platforms == {"win32", "linux"}

\* str(uuid.uuid4()): the k-th fresh random identifier of the process
Uuid4(k) == Str("uuid4-" \o ToString(k))

\* the try block of get_mac_address (lines 21-33): a return value, None for
\* falling through, or the exception of the command
MacTry(sys_platform, o) ==
    IF o.mac = "fail" THEN Raise("CalledProcessError", "command failed")
    ELSE IF o.mac = "nomatch" THEN Ret(None)
    ELSE IF sys_platform = "win32" THEN Ret(Str("AA:BB:CC:DD:EE:FF"))
    ELSE Ret(Str("aa:bb:cc:dd:ee:ff"))

get_mac_address(sys_platform, o) ==
    LET r == MacTry(sys_platform, o)
    IN IF r.exc = "" /\ r.val # None
       THEN r
       ELSE Ret(Str("getnode-pseudo-mac"))

\* the try block of get_cpu_id (lines 44-59)
CpuTry(sys_platform, o) ==
    IF o.cpu = "fail" THEN Raise("CalledProcessError", "command failed")
    ELSE IF sys_platform = "win32"
         THEN IF o.cpu = "unparseable"
              THEN Raise("IndexError", "list index out of range")
              ELSE Ret(Str("BFEBFBFF000906EA"))
         ELSE IF o.cpu = "unparseable"
              THEN Ret(None)
              ELSE Ret(Str("00000000cafe"))

get_cpu_id(sys_platform, o) ==
    LET r == CpuTry(sys_platform, o)
    IN IF r.exc = "" /\ r.val # None
       THEN r
       ELSE Ret(Sha256Hex("x86_64" \o "8"))

\* the command and the parse of get_disk_serial (lines 70-83): the serial
\* read, possibly empty, or the exception of the command
DiskTry(sys_platform, o) ==
    IF o.disk = "fail" THEN Raise("CalledProcessError", "command failed")
    ELSE IF o.disk = "empty" THEN Ret(Str(""))
    ELSE Ret(Str(IF sys_platform = "win32" THEN "WD-WX11A" ELSE "S3Z9NB0K"))

\* whether get_disk_serial calls uuid.uuid4()
DiskUsesUuid(sys_platform, o) ==
    LET r == DiskTry(sys_platform, o)
    IN r.exc # "" \/ ~Truthy(r.val)

\* get_disk_serial when k calls of uuid4 were made before
get_disk_serial(sys_platform, o, k) ==
    IF DiskUsesUuid(sys_platform, o)
    THEN Ret(Uuid4(k))
    ELSE DiskTry(sys_platform, o)

\* -------------------------------------------------------- json.dumps
\* every dictionary key of the program, in the order sort_keys=True gives
SortedKeys ==
    <<"ai_chat", "api_access", "cpu_count", "cpu_id", "customer_email",
      "customer_name", "disk_serial", "expiry_date", "features", "fqdn",
      "hardware_bound", "hardware_signature", "hostname", "issue_date",
      "license_id", "mac_address", "machine", "max_requests_per_day",
      "max_users", "message", "node", "platform", "processor", "release",
      "signature", "system", "total_ram", "valid", "version",
      "voice_support">>

\* the feature dictionaries a record can refer to
FeatureDicts(name) ==
    CASE name = "default_features" ->
           [ai_chat |-> True, voice_support |-> False, api_access |-> False,
            max_requests_per_day |-> IntVal(1000)]
      [] name = "stub_features" ->
           [ai_chat |-> True, voice_support |-> False, api_access |-> True]
      [] name = "custom_features" ->
           [ai_chat |-> False, voice_support |-> True]
      [] OTHER -> [ai_chat |-> True]

\* json.dumps of a value that is not a dictionary
JsonScalar(x) ==
    CASE x.t = "str" -> "\"" \o StrText(x) \o "\""
      [] x.t = "int" -> ToString(x.n)
      [] x.t = "bool" -> (IF x.n = 1 THEN "true" ELSE "false")
      [] OTHER -> "null"

\* the members of dictionary d from position i of SortedKeys on; depth 1
\* is a nested dictionary, whose values are scalars
RECURSIVE JsonMembers(_, _, _, _)
JsonMembers(d, i, first, depth) ==
    IF i > Len(SortedKeys) THEN ""
    ELSE IF SortedKeys[i] \notin DOMAIN d THEN JsonMembers(d, i + 1, first, depth)
    ELSE (IF first THEN "" ELSE ", ")
         \o "\"" \o SortedKeys[i] \o "\": "
         \o (IF d[SortedKeys[i]].t = "dict" /\ depth = 0
             THEN "{" \o JsonMembers(FeatureDicts(d[SortedKeys[i]].v), 1, TRUE, 1) \o "}"
             ELSE JsonScalar(d[SortedKeys[i]]))
         \o JsonMembers(d, i + 1, FALSE, depth)

\* json.dumps(d, sort_keys=True)
JsonDumps(d) == "{" \o JsonMembers(d, 1, TRUE, 0) \o "}"

\* get_system_info when k calls of uuid4 were made before
get_system_info(sys_platform, o, k) ==
    [platform |-> Str(IF sys_platform = "win32" THEN "Windows-10" ELSE "Linux-6.1"),
     system |-> Str(IF sys_platform = "win32" THEN "Windows" ELSE "Linux"),
     node |-> Str("host1"),
     release |-> Str("10"),
     version |-> Str("#1 SMP"),
     machine |-> Str("x86_64"),
     processor |-> Str("x86_64"),
     cpu_count |-> IntVal(8),
     total_ram |-> IntVal(16),
     mac_address |-> get_mac_address(sys_platform, o).val,
     cpu_id |-> get_cpu_id(sys_platform, o).val,
     disk_serial |-> get_disk_serial(sys_platform, o, k).val,
     hostname |-> Str("host1"),
     fqdn |-> Str("host1.example.com")]

\* get_hardware_id(use_system_info) when k calls of uuid4 were made before
get_hardware_id(use_system_info, sys_platform, o, k) ==
    IF use_system_info
    THEN LET system_info == get_system_info(sys_platform, o, k)
             json == HardwareName("json")
         IN IF json.exc # ""
            THEN json
            ELSE Ret(Sha256Hex(JsonDumps(system_info)))
    ELSE Ret(Sha256Hex(StrText(get_mac_address(sys_platform, o).val) \o ":"
                       \o StrText(get_disk_serial(sys_platform, o, k).val)))

\* validate_hardware_id(hardware_id)
validate_hardware_id(hardware_id, sys_platform, o, k) ==
    IF ~Truthy(hardware_id)
    THEN Ret(False)
    ELSE LET current_id == get_hardware_id(TRUE, sys_platform, o, k)
         IN IF current_id.exc # ""
            THEN current_id
            ELSE Ret(Bool(current_id.val = hardware_id))

\* ------------------------------------------------------- license.py
\* os.getenv(name, default): an unset variable is None in env
Getenv(env, name, default) == IF env[name] = None THEN default ELSE env[name]

\* LicenseManager._generate_license_id
_generate_license_id(customer_name, utcnow, k) ==
    Sha256Hex(StrText(customer_name) \o "-" \o StrText(isoformat(utcnow))
              \o "-" \o StrText(Uuid4(k)))

\* LicenseManager._get_hardware_signature
_get_hardware_signature(sys_platform, o, k) ==
    LET hardware_id == get_hardware_id(TRUE, sys_platform, o, k)
    IN IF hardware_id.exc # ""
       THEN hardware_id
       ELSE Ret(Sha256Hex(StrText(hardware_id.val)))

\* _sign_license without data.pop("signature", None)
_sign_license_keeping_signature(license_data, env) ==
    LET data_str == JsonDumps(license_data)
        secret == Getenv(env, "LICENSE_SECRET", Str("your-secret-key-here"))
    IN Sha256Hex(data_str \o StrText(secret))

\* LicenseManager._sign_license
_sign_license(license_data, env) ==
    LET data == [f \in DOMAIN license_data \ {"signature"} |-> license_data[f]]
        data_str == JsonDumps(data)
        secret == Getenv(env, "LICENSE_SECRET", Str("your-secret-key-here"))
    IN Sha256Hex(data_str \o StrText(secret))

\* the default feature flags of generate_license (lines 66-72)
GenerateFeatures(features) ==
    IF ~Truthy(features) THEN DictRef("default_features") ELSE features

\* LicenseManager.generate_license at time utcnow, k calls of uuid4 before
generate_license(customer_name, customer_email, expiry_days, max_users, features, utcnow, sys_platform, o, k, env) ==
    LET license_id == _generate_license_id(customer_name, utcnow, k)
        hardware_signature == _get_hardware_signature(sys_platform, o, k + 1)
        license_data ==
            [license_id |-> license_id,
             customer_name |-> customer_name,
             customer_email |-> customer_email,
             issue_date |-> isoformat(utcnow),
             expiry_date |-> isoformat(Datetime(utcnow.n + expiry_days)),
             max_users |-> max_users,
             features |-> GenerateFeatures(features),
             hardware_bound |-> True,
             hardware_signature |-> hardware_signature.val,
             version |-> Str("1.0.0")]
        signed == [f \in DOMAIN license_data \cup {"signature"} |->
                     IF f = "signature"
                     THEN _sign_license(license_data, env)
                     ELSE license_data[f]]
    IN IF hardware_signature.exc # ""
       THEN hardware_signature
       ELSE Ret(signed)

\* _validate_license taking the expiry date and the hardware binding from
\* the license the key was issued for, instead of the fixed mapping
ValidateTryReadingKey(license_key, utcnow) ==
    IF ~Truthy(license_key) \/ license_key.t # "str"
    THEN Raise("LicenseError", "Invalid license key format")
    ELSE Ret([valid |-> True,
              message |-> Str("License is valid"),
              expiry_date |-> isoformat(Datetime(IF license_key.v = "KEY_EXPIRED"
                                                 THEN -1 ELSE 400)),
              hardware_bound |-> Bool(license_key.v = "KEY_FOREIGN_HW"),
              hardware_signature |-> Str("sha256(another-machine)"),
              features |-> DictRef("stub_features")])

\* _validate_license without the isinstance test of line 126
ValidateTryNoTypeTest(license_key, utcnow) ==
    IF ~Truthy(license_key)
    THEN Raise("LicenseError", "Invalid license key format")
    ELSE Ret([valid |-> True,
              message |-> Str("License is valid"),
              expiry_date |-> isoformat(Datetime(utcnow.n + StubValidityDays)),
              features |-> DictRef("stub_features")])

\* the body of the try block of _validate_license (lines 126-140)
ValidateTry(license_key, utcnow) ==
    IF ~Truthy(license_key) \/ license_key.t # "str"
    THEN Raise("LicenseError", "Invalid license key format")
    ELSE Ret([valid |-> True,
              message |-> Str("License is valid"),
              expiry_date |-> isoformat(Datetime(utcnow.n + StubValidityDays)),
              features |-> DictRef("stub_features")])

\* LicenseManager._validate_license: every exception of the body is raised
\* again as a LicenseError (lines 142-144)
_validate_license(license_key, utcnow) ==
    LET r == ValidateTry(license_key, utcnow)
    IN IF r.exc # ""
       THEN Raise("LicenseError", "License validation failed: " \o r.msg)
       ELSE r

\* check_license without its "except LicenseError" clause, the generic
\* clause narrowed to the errors of parsing the record
CheckExceptNarrow(r) ==
    IF r.exc = "" THEN r
    ELSE IF r.exc \in {"ValueError", "KeyError"}
         THEN Ret(<<FALSE, "Error checking license: " \o r.msg>>)
    ELSE r

\* the except clauses of check_license (lines 172-176) on the outcome of
\* its try block
CheckExcept(r) ==
    IF r.exc = "" THEN r
    ELSE IF r.exc = "LicenseError" THEN Ret(<<FALSE, r.msg>>)
    ELSE Ret(<<FALSE, "Error checking license: " \o r.msg>>)

\* lines 160-170 of check_license: license_data is what validation returned,
\* utcnow the clock read at line 161, hw the outcome of computing the
\* hardware signature
CheckTail(license_data, utcnow, hw) ==
    LET expiry_text == GetItem(license_data, "expiry_date")
        expiry_date == IF expiry_text.exc # "" THEN expiry_text
                       ELSE fromisoformat(expiry_text.val)
    IN IF expiry_date.exc # "" THEN expiry_date
       ELSE IF utcnow.n > expiry_date.val.n
            THEN Ret(<<FALSE, "License has expired">>)
       ELSE IF Truthy(Get(license_data, "hardware_bound", False))
            THEN IF hw.exc # "" THEN hw
                 ELSE IF hw.val # Get(license_data, "hardware_signature", None)
                      THEN Ret(<<FALSE, "License is not valid for this hardware">>)
                      ELSE Ret(<<TRUE, "License is valid">>)
       ELSE Ret(<<TRUE, "License is valid">>)

\* whether lines 160-170 reach the call of _get_hardware_signature
CheckProbes(license_data, utcnow) ==
    LET expiry_text == GetItem(license_data, "expiry_date")
        expiry_date == IF expiry_text.exc # "" THEN expiry_text
                       ELSE fromisoformat(expiry_text.val)
    IN /\ expiry_date.exc = ""
       /\ ~(utcnow.n > expiry_date.val.n)
       /\ Truthy(Get(license_data, "hardware_bound", False))

\* get_license_features on the manager's cached license_data
get_license_features(license_data) ==
    IF license_data # None
    THEN IF "features" \in DOMAIN license_data
         THEN FeatureDicts(license_data["features"].v)
         ELSE << >>
    ELSE << >>

\* is_feature_enabled(feature_name)
is_feature_enabled(license_data, feature_name) ==
    Get(get_license_features(license_data), feature_name, False)

\* ------------------------------------------------------------ inputs
\* the texts of the license keys the callers configure
KeyTexts == {"KEY_VALID", "KEY_EXPIRED", "KEY_FOREIGN_HW"}

\* the license_key arguments of LicenseManager(license_key=...)
CtorArgs == {None, Str(""), IntVal(123)} \cup {Str(k) : k \in KeyTexts}

\* the process environments
Envs ==
    [LICENSE_KEY : {None, Str("KEY_EXPIRED")},
     LICENSE_SECRET : {None}]

FeatureNames == {"ai_chat", "voice_support", "no_such_feature"}

\* generate_license("Acme", "a@acme.com", expiry_days=30), and a call that
\* passes every argument
GenerateArgs ==
    {[customer_name |-> Str("Acme"), customer_email |-> Str("a@acme.com"),
      expiry_days |-> 30, max_users |-> IntVal(1), features |-> None],
     [customer_name |-> Str("Bolt"), customer_email |-> Str("b@bolt.io"),
      expiry_days |-> 365, max_users |-> IntVal(5),
      features |-> DictRef("custom_features")]}

\* ------------------------------------------------------------- state
VARIABLES
    now,            \* datetime.utcnow(), in days
    uuidCount,      \* calls of uuid.uuid4() made so far
    env,            \* os.environ: LICENSE_KEY and LICENSE_SECRET, None when unset
    sys_platform,   \* sys.platform
    constructed,    \* "no", "yes", or "raised" when __init__ raised
    ctor_arg,       \* the license_key argument __init__ was called with
    license_key,    \* LicenseManager.license_key
    license_data,   \* LicenseManager.license_data
    th              \* per caller: the call in progress and its locals

vars == <<now, uuidCount, env, sys_platform, constructed, ctor_arg, license_key,
          license_data, th>>

Idle ==
    [pc |-> "idle", op |-> "", arg |-> None, loc |-> None,
     res |-> Ret(None), validated |-> FALSE, probed |-> FALSE]

Done(op, arg, res, validated, probed) ==
    [pc |-> "done", op |-> op, arg |-> arg, loc |-> None,
     res |-> res, validated |-> validated, probed |-> probed]

\* the state before license.py is loaded
Init ==
    /\ now = 0
    /\ uuidCount = 0
    /\ env \in Envs
    /\ sys_platform \in Platforms
    /\ constructed = "no"
    /\ ctor_arg = None
    /\ license_key = None
    /\ license_data = None
    /\ th = [t \in Threads |-> Idle]

\* LicenseManager.__init__(license_key=arg)
Construct(arg) ==
    /\ constructed = "no"
    /\ LET key == IF Truthy(arg) THEN arg ELSE env["LICENSE_KEY"]
           r == _validate_license(key, Datetime(now))
       IN /\ ctor_arg' = arg
          /\ license_key' = key
          /\ IF ~Truthy(key)
             THEN license_data' = None /\ constructed' = "yes"
             ELSE IF r.exc # ""
                  THEN license_data' = None /\ constructed' = "raised"
                  ELSE license_data' = r.val /\ constructed' = "yes"
    /\ UNCHANGED <<now, uuidCount, env, sys_platform, th>>

\* the clock advances
Tick ==
    /\ now < MaxNow
    /\ now' = now + 1
    /\ UNCHANGED <<uuidCount, env, sys_platform, constructed, ctor_arg, license_key, license_data, th>>

\* check_license without the test of lines 153-154
CheckBeginNoTest(t) ==
    /\ constructed = "yes"
    /\ th[t].pc = "idle"
    /\ th' = [th EXCEPT ![t] = [Idle EXCEPT !.pc = "check_validate", !.op = "check_license"]]
    /\ UNCHANGED <<now, uuidCount, env, sys_platform, constructed, ctor_arg, license_key, license_data>>

\* check_license, lines 153-154
CheckBegin(t) ==
    /\ constructed = "yes"
    /\ th[t].pc = "idle"
    /\ th' = [th EXCEPT ![t] =
                IF ~Truthy(license_key)
                THEN Done("check_license", None, Ret(<<FALSE, "No license key provided">>),
                          FALSE, FALSE)
                ELSE [Idle EXCEPT !.pc = "check_validate", !.op = "check_license"]]
    /\ UNCHANGED <<now, uuidCount, env, sys_platform, constructed, ctor_arg, license_key, license_data>>

\* check_license storing what validation returned in self.license_data
CheckValidateCaching(t) ==
    /\ th[t].pc = "check_validate"
    /\ LET r == _validate_license(license_key, Datetime(now))
       IN /\ th' = [th EXCEPT ![t] =
                      IF r.exc # ""
                      THEN Done("check_license", None, CheckExcept(r), TRUE, FALSE)
                      ELSE [th[t] EXCEPT !.pc = "check_expiry", !.loc = r.val,
                                         !.validated = TRUE]]
          /\ license_data' = IF r.exc # "" THEN license_data ELSE r.val
    /\ UNCHANGED <<now, uuidCount, env, sys_platform, constructed, ctor_arg, license_key>>

\* check_license, line 157
CheckValidate(t) ==
    /\ th[t].pc = "check_validate"
    /\ LET r == _validate_license(license_key, Datetime(now))
       IN th' = [th EXCEPT ![t] =
                   IF r.exc # ""
                   THEN Done("check_license", None, CheckExcept(r), TRUE, FALSE)
                   ELSE [th[t] EXCEPT !.pc = "check_expiry", !.loc = r.val,
                                      !.validated = TRUE]]
    /\ UNCHANGED <<now, uuidCount, env, sys_platform, constructed, ctor_arg, license_key, license_data>>

\* check_license, lines 160-176
CheckExpiry(t) ==
    /\ th[t].pc = "check_expiry"
    /\ LET probes == CheckProbes(th[t].loc, Datetime(now))
       IN \E o \in IF probes THEN ProbeOutcomes ELSE {CHOOSE x \in ProbeOutcomes : TRUE} :
            LET uses == probes /\ DiskUsesUuid(sys_platform, o)
                hw == _get_hardware_signature(sys_platform, o, uuidCount)
                r == CheckExcept(CheckTail(th[t].loc, Datetime(now), hw))
            IN /\ uses => uuidCount < MaxUuid
               /\ uuidCount' = IF uses THEN uuidCount + 1 ELSE uuidCount
               /\ th' = [th EXCEPT ![t] =
                           Done("check_license", None, r, TRUE, probes)]
    /\ UNCHANGED <<now, env, sys_platform, constructed, ctor_arg, license_key, license_data>>

\* get_license_features()
GetLicenseFeatures(t) ==
    /\ constructed = "yes"
    /\ th[t].pc = "idle"
    /\ th' = [th EXCEPT ![t] =
                Done("get_license_features", None,
                     Ret(get_license_features(license_data)), FALSE, FALSE)]
    /\ UNCHANGED <<now, uuidCount, env, sys_platform, constructed, ctor_arg, license_key, license_data>>

\* is_feature_enabled(feature_name)
IsFeatureEnabled(t, feature_name) ==
    /\ constructed = "yes"
    /\ th[t].pc = "idle"
    /\ th' = [th EXCEPT ![t] =
                Done("is_feature_enabled", Str(feature_name),
                     Ret(is_feature_enabled(license_data, feature_name)),
                     FALSE, FALSE)]
    /\ UNCHANGED <<now, uuidCount, env, sys_platform, constructed, ctor_arg, license_key, license_data>>

\* license_manager.generate_license(...)
GenerateLicense(t, a, o) ==
    /\ constructed = "yes"
    /\ th[t].pc = "idle"
    /\ LET calls == 1 + (IF DiskUsesUuid(sys_platform, o) THEN 1 ELSE 0)
       IN /\ uuidCount + calls <= MaxUuid
          /\ uuidCount' = uuidCount + calls
    /\ th' = [th EXCEPT ![t] =
                Done("generate_license", a,
                     generate_license(a.customer_name, a.customer_email, a.expiry_days,
                                      a.max_users, a.features, Datetime(now),
                                      sys_platform, o, uuidCount, env),
                     FALSE, TRUE)]
    /\ UNCHANGED <<now, env, sys_platform, constructed, ctor_arg, license_key, license_data>>

\* the caller takes the result and is free for its next call
Return(t) ==
    /\ th[t].pc = "done"
    /\ th' = [th EXCEPT ![t] = Idle]
    /\ UNCHANGED <<now, uuidCount, env, sys_platform, constructed, ctor_arg, license_key, license_data>>

\* a direct call of LicenseManager._validate_license(key)
CallValidateLicense(t, key) ==
    /\ constructed = "yes"
    /\ th[t].pc = "idle"
    /\ th' = [th EXCEPT ![t] =
                Done("_validate_license", key, _validate_license(key, Datetime(now)),
                     TRUE, FALSE)]
    /\ UNCHANGED <<now, uuidCount, env, sys_platform, constructed, ctor_arg, license_key, license_data>>

\* a direct call of LicenseManager._sign_license(record)
CallSignLicense(t, record) ==
    /\ constructed = "yes"
    /\ th[t].pc = "idle"
    /\ th' = [th EXCEPT ![t] =
                Done("_sign_license", record, Ret(_sign_license(record, env)),
                     FALSE, FALSE)]
    /\ UNCHANGED <<now, uuidCount, env, sys_platform, constructed, ctor_arg, license_key, license_data>>

\* a call of one of get_mac_address, get_cpu_id, get_disk_serial
CallProbe(t, probe, o) ==
    /\ th[t].pc = "idle"
    /\ LET uses == probe = "get_disk_serial" /\ DiskUsesUuid(sys_platform, o)
           r == CASE probe = "get_mac_address" -> get_mac_address(sys_platform, o)
                  [] probe = "get_cpu_id" -> get_cpu_id(sys_platform, o)
                  [] OTHER -> get_disk_serial(sys_platform, o, uuidCount)
           outcome == CASE probe = "get_mac_address" -> o.mac
                        [] probe = "get_cpu_id" -> o.cpu
                        [] OTHER -> o.disk
       IN /\ uses => uuidCount < MaxUuid
          /\ uuidCount' = IF uses THEN uuidCount + 1 ELSE uuidCount
          /\ th' = [th EXCEPT ![t] = Done(probe, Str(outcome), r, FALSE, TRUE)]
    /\ UNCHANGED <<now, env, sys_platform, constructed, ctor_arg, license_key, license_data>>

\* a call of get_hardware_id(use_system_info)
CallGetHardwareId(t, use_system_info, o) ==
    /\ th[t].pc = "idle"
    /\ LET uses == DiskUsesUuid(sys_platform, o)
       IN /\ uses => uuidCount < MaxUuid
          /\ uuidCount' = IF uses THEN uuidCount + 1 ELSE uuidCount
    /\ th' = [th EXCEPT ![t] =
                Done("get_hardware_id", Bool(use_system_info),
                     get_hardware_id(use_system_info, sys_platform, o, uuidCount),
                     FALSE, TRUE)]
    /\ UNCHANGED <<now, env, sys_platform, constructed, ctor_arg, license_key, license_data>>

\* a call of validate_hardware_id(hardware_id)
CallValidateHardwareId(t, hardware_id, o) ==
    /\ th[t].pc = "idle"
    /\ LET uses == Truthy(hardware_id) /\ DiskUsesUuid(sys_platform, o)
       IN /\ uses => uuidCount < MaxUuid
          /\ uuidCount' = IF uses THEN uuidCount + 1 ELSE uuidCount
    /\ th' = [th EXCEPT ![t] =
                Done("validate_hardware_id", hardware_id,
                     validate_hardware_id(hardware_id, sys_platform, o, uuidCount),
                     FALSE, Truthy(hardware_id))]
    /\ UNCHANGED <<now, env, sys_platform, constructed, ctor_arg, license_key, license_data>>

\* the expression validate_hardware_id(get_hardware_id()): o1 and o2 are what
\* the platform commands did in the first and in the second call
CallReflexive(t, o1, o2) ==
    /\ th[t].pc = "idle"
    /\ LET u1 == IF DiskUsesUuid(sys_platform, o1) THEN 1 ELSE 0
           hardware_id == get_hardware_id(TRUE, sys_platform, o1, uuidCount)
           second == hardware_id.exc = "" /\ Truthy(hardware_id.val)
           u2 == IF second /\ DiskUsesUuid(sys_platform, o2) THEN 1 ELSE 0
           r == IF hardware_id.exc # ""
                THEN hardware_id
                ELSE validate_hardware_id(hardware_id.val, sys_platform, o2,
                                          uuidCount + u1)
       IN /\ uuidCount + u1 + u2 <= MaxUuid
          /\ uuidCount' = uuidCount + u1 + u2
          /\ th' = [th EXCEPT ![t] =
                      Done("validate_hardware_id(get_hardware_id())", None, r,
                           FALSE, TRUE)]
    /\ UNCHANGED <<now, env, sys_platform, constructed, ctor_arg, license_key, license_data>>

Next ==
    \/ \E arg \in CtorArgs : Construct(arg)
    \/ Tick
    \/ \E t \in Threads : CheckBegin(t)
    \/ \E t \in Threads : CheckValidate(t)
    \/ \E t \in Threads : CheckExpiry(t)
    \/ \E t \in Threads : GetLicenseFeatures(t)
    \/ \E t \in Threads, f \in FeatureNames : IsFeatureEnabled(t, f)
    \/ \E t \in Threads, a \in GenerateArgs, o \in ProbeOutcomes : GenerateLicense(t, a, o)
    \/ \E t \in Threads : Return(t)

Spec == Init /\ [][Next]_vars

\* -------------------------------------- check_license on any manager
\* the values the attribute license_key can hold
AnyKeys == CtorArgs \cup {IntVal(0), True, DictRef("custom_features")}

\* a manager object in any state of its two attributes
UnitInit ==
    /\ now = 0
    /\ uuidCount = 0
    /\ env = [LICENSE_KEY |-> None, LICENSE_SECRET |-> None]
    /\ sys_platform \in Platforms
    /\ constructed = "yes"
    /\ ctor_arg = None
    /\ license_key \in AnyKeys
    /\ license_data \in {None, ValidateTry(Str("KEY_VALID"), Datetime(0)).val}
    /\ th = [t \in Threads |-> Idle]

UnitNext ==
    \/ Tick
    \/ \E t \in Threads : CheckBegin(t)
    \/ \E t \in Threads : CheckValidate(t)
    \/ \E t \in Threads : CheckExpiry(t)
    \/ \E t \in Threads, key \in AnyKeys : CallValidateLicense(t, key)
    \/ \E t \in Threads : Return(t)

UnitSpec == UnitInit /\ [][UnitNext]_vars

\* ------------------------------------------------ signing of records
\* a record as generate_license builds it, before it is signed
BaseRecord ==
    [license_id |-> Str("id-1"),
     customer_name |-> Str("Acme"),
     customer_email |-> Str("a@acme.com"),
     issue_date |-> isoformat(Datetime(0)),
     expiry_date |-> isoformat(Datetime(30)),
     max_users |-> IntVal(1),
     features |-> DictRef("default_features"),
     hardware_bound |-> True,
     hardware_signature |-> Str("hw-1"),
     version |-> Str("1.0.0")]

\* another value for field f
OtherValue(f) ==
    CASE f = "license_id" -> Str("id-2")
      [] f = "customer_name" -> Str("Bolt")
      [] f = "customer_email" -> Str("b@bolt.io")
      [] f = "issue_date" -> isoformat(Datetime(1))
      [] f = "expiry_date" -> isoformat(Datetime(365))
      [] f = "max_users" -> IntVal(5)
      [] f = "features" -> DictRef("custom_features")
      [] f = "hardware_bound" -> False
      [] f = "hardware_signature" -> Str("hw-2")
      [] OTHER -> Str("2.0.0")

Changed(record, f) == [record EXCEPT ![f] = OtherValue(f)]

WithSignature(record, sig) ==
    [f \in DOMAIN record \cup {"signature"} |->
        IF f = "signature" THEN Str(sig) ELSE record[f]]

WithoutSignature(record) ==
    [f \in DOMAIN record \ {"signature"} |-> record[f]]

SignRecords ==
    {BaseRecord}
    \cup {Changed(BaseRecord, f) : f \in DOMAIN BaseRecord}
    \cup {WithSignature(BaseRecord, "sig-a"), WithSignature(BaseRecord, "sig-b"),
          WithSignature(Changed(BaseRecord, "customer_name"), "sig-a")}

SignInit ==
    /\ now = 0
    /\ uuidCount = 0
    /\ env \in [LICENSE_KEY : {None}, LICENSE_SECRET : {None, Str("s3cret")}]
    /\ sys_platform = "linux"
    /\ constructed = "yes"
    /\ ctor_arg = None
    /\ license_key = None
    /\ license_data = None
    /\ th = [t \in Threads |-> Idle]

SignNext ==
    \/ \E t \in Threads, record \in SignRecords : CallSignLicense(t, record)
    \/ \E t \in Threads : Return(t)

SignSpec == SignInit /\ [][SignNext]_vars

\* --------------------------------------------- the hardware functions
HardwareIdArgs == {None, Str(""), Str("sha256(another-machine)")}

ProbeNames == {"get_mac_address", "get_cpu_id", "get_disk_serial"}

HardwareInit ==
    /\ now = 0
    /\ uuidCount = 0
    /\ env = [LICENSE_KEY |-> None, LICENSE_SECRET |-> None]
    /\ sys_platform \in Platforms
    /\ constructed = "no"
    /\ ctor_arg = None
    /\ license_key = None
    /\ license_data = None
    /\ th = [t \in Threads |-> Idle]

HardwareNext ==
    \/ \E t \in Threads, p \in ProbeNames, o \in ProbeOutcomes : CallProbe(t, p, o)
    \/ \E t \in Threads, u \in BOOLEAN, o \in ProbeOutcomes : CallGetHardwareId(t, u, o)
    \/ \E t \in Threads, h \in HardwareIdArgs, o \in ProbeOutcomes :
          CallValidateHardwareId(t, h, o)
    \/ \E t \in Threads, o1 \in ProbeOutcomes, o2 \in ProbeOutcomes : CallReflexive(t, o1, o2)
    \/ \E t \in Threads : Return(t)

HardwareSpec == HardwareInit /\ [][HardwareNext]_vars

\* ------------------------------------------------------------ claims
Finished(t, op) == th[t].pc = "done" /\ th[t].op = op

\* the license record each key text was issued for: its expiry day, whether
\* it is hardware-bound, and whether its hardware signature is the one of
\* another machine
KeyRecord(text) ==
    CASE text = "KEY_EXPIRED" ->
           [expiry_date |-> -1, hardware_bound |-> FALSE, foreign |-> FALSE]
      [] text = "KEY_FOREIGN_HW" ->
           [expiry_date |-> 400, hardware_bound |-> TRUE, foreign |-> TRUE]
      [] OTHER ->
           [expiry_date |-> 400, hardware_bound |-> FALSE, foreign |-> FALSE]

\* the key of the manager is the text of an issued license
IssuedKey == license_key.t = "str" /\ license_key.v \in KeyTexts

\* C1: check_license never raises: every finished call returned a pair
\* (bool, message), and the pair is (False, message) whenever validating the
\* key failed, which it does for every key that is truthy and not a str.
C1_CheckLicenseNeverRaises ==
    \A t \in Threads :
        Finished(t, "check_license") =>
            /\ th[t].res.exc = ""
            /\ Len(th[t].res.val) = 2
            /\ th[t].res.val[1] \in BOOLEAN
            /\ (Truthy(license_key) /\ license_key.t # "str") =>
                   /\ th[t].res.val[1] = FALSE
                   /\ th[t].validated

\* a call of check_license in which validation raised and the caller got a pair
C1_Witness ==
    \E t \in Threads :
        /\ Finished(t, "check_license")
        /\ license_key = IntVal(123)
        /\ th[t].validated
        /\ th[t].res = Ret(<<FALSE, "License validation failed: Invalid license key format">>)

\* C2: a manager whose key is the key of a hardware-bound license with the
\* hardware signature of another machine gets
\* (False, "License is not valid for this hardware") from check_license.
C2_HardwareMismatchRejected ==
    \A t \in Threads :
        (/\ Finished(t, "check_license")
         /\ IssuedKey
         /\ KeyRecord(license_key.v).hardware_bound
         /\ KeyRecord(license_key.v).foreign)
        => th[t].res = Ret(<<FALSE, "License is not valid for this hardware">>)

\* C3: a manager whose key is the key of a license with expiry_date earlier
\* than the current time gets (False, "License has expired") from
\* check_license, and one whose expiry_date is the current time or later is
\* not reported as expired.
C3_ExpiryEnforced ==
    \A t \in Threads :
        (Finished(t, "check_license") /\ IssuedKey) =>
            /\ KeyRecord(license_key.v).expiry_date < now =>
                   th[t].res = Ret(<<FALSE, "License has expired">>)
            /\ KeyRecord(license_key.v).expiry_date >= now =>
                   th[t].res # Ret(<<FALSE, "License has expired">>)

\* C4: a manager constructed with license_key=None and no LICENSE_KEY in the
\* environment answers every check_license with exactly
\* (False, "No license key provided"), and the call runs neither validation
\* nor a hardware probe.
C4_NoKeyFailsClosed ==
    (constructed = "yes" /\ ctor_arg = None /\ env["LICENSE_KEY"] = None) =>
        \A t \in Threads :
            th[t].op = "check_license" =>
                /\ th[t].pc = "done"
                /\ th[t].res = Ret(<<FALSE, "No license key provided">>)
                /\ ~th[t].validated
                /\ ~th[t].probed

\* a finished check_license on a manager built with no key at all
C4_Witness ==
    /\ constructed = "yes" /\ ctor_arg = None /\ env["LICENSE_KEY"] = None
    /\ \E t \in Threads : Finished(t, "check_license")

\* C5: generate_license("Acme", "a@acme.com", expiry_days=30) returns a
\* record with features["ai_chat"] true, max_users 1, hardware_bound true and
\* a non-empty signature, and signing the returned record again gives the
\* same signature.
C5_GenerateLicenseEndToEnd ==
    \A t \in Threads :
        (/\ Finished(t, "generate_license")
         /\ th[t].arg.customer_name = Str("Acme")
         /\ th[t].arg.expiry_days = 30)
        => /\ th[t].res.exc = ""
           /\ FeatureDicts(th[t].res.val["features"].v)["ai_chat"] = True
           /\ th[t].res.val["max_users"] = IntVal(1)
           /\ th[t].res.val["hardware_bound"] = True
           /\ Truthy(th[t].res.val["signature"])
           /\ _sign_license(th[t].res.val, env) = th[t].res.val["signature"]

\* C6: the signature is a function of exactly the non-signature fields (and
\* the secret): two signed records get the same signature if and only if
\* they agree on every field other than signature.
C6_SignatureDeterminedByFields ==
    \A t1 \in Threads, t2 \in Threads :
        (Finished(t1, "_sign_license") /\ Finished(t2, "_sign_license")) =>
            ((WithoutSignature(th[t1].arg) = WithoutSignature(th[t2].arg))
             <=> (th[t1].res = th[t2].res))

\* the record signed bare and with a signature field give one signature,
\* and another caller could sign the record with customer_name changed
C6_Witness ==
    \E t1 \in Threads, t2 \in Threads :
        /\ Finished(t1, "_sign_license") /\ Finished(t2, "_sign_license")
        /\ th[t1].arg = WithSignature(BaseRecord, "sig-a")
        /\ th[t2].arg = WithSignature(Changed(BaseRecord, "customer_name"), "sig-a")
        /\ th[t1].res = Ret(_sign_license(BaseRecord, env))
        /\ th[t1].res # th[t2].res

\* C7: validate_hardware_id(get_hardware_id()) returns True, whatever the
\* platform commands do.
C7_ValidateHardwareIdReflexive ==
    \A t \in Threads :
        Finished(t, "validate_hardware_id(get_hardware_id())") =>
            th[t].res = Ret(True)

\* C8: no probe and no call of get_hardware_id raises: each returns a text,
\* the fallback value when the platform command failed.
C8_ProbesNeverRaise ==
    \A t \in Threads :
        (th[t].pc = "done" /\ th[t].op \in ProbeNames \cup {"get_hardware_id"}) =>
            /\ th[t].res.exc = ""
            /\ th[t].res.val.t = "str"

\* what check_license returns for a manager with this key when nothing else
\* runs: validation at time n1, the expiry test at time n2
CheckLicenseAlone(key, n1, n2, o, k) ==
    IF ~Truthy(key) THEN Ret(<<FALSE, "No license key provided">>)
    ELSE LET r == _validate_license(key, Datetime(n1))
         IN IF r.exc # "" THEN CheckExcept(r)
            ELSE CheckExcept(CheckTail(r.val, Datetime(n2),
                                       _get_hardware_signature(sys_platform, o, k)))

\* C9: once constructed, license_key and license_data never change, whatever
\* the callers do, and every finished check_license returned what a call
\* running alone returns.
C9_ManagerReadOnly ==
    /\ [][constructed = "yes" =>
            (license_key' = license_key /\ license_data' = license_data)]_vars
    /\ [](\A t \in Threads :
            Finished(t, "check_license") =>
                \E n1 \in 0..now, n2 \in 0..now, o \in ProbeOutcomes, k \in 0..uuidCount :
                    n1 <= n2 /\ th[t].res = CheckLicenseAlone(license_key, n1, n2, o, k))

\* two callers inside check_license at once, one before and one after
\* validation, on a manager with cached license_data, the clock having moved
C9_Witness ==
    /\ constructed = "yes" /\ license_data # None /\ now > 0
    /\ \E t1 \in Threads, t2 \in Threads :
          /\ th[t1].pc = "check_expiry"
          /\ th[t2].pc = "check_validate"

====
